---- MODULE Spec2Model ----
(***************************************************************************)
(* XRay flight-data-recorder logging: the lifecycle controller of          *)
(* lib/xray/xray_fdr_logging.cc (fdrLoggingInit, fdrLoggingFinalize,       *)
(* fdrLoggingFlush, fdrLoggingReset, fdrLoggingHandleArg0) run by          *)
(* concurrent threads over the process-wide LoggingStatus, LogFlushStatus, *)
(* BQ and FDROptions.                                                      *)
(*                                                                         *)
(* Every atomic operation on a status register is one step.  std::shared_  *)
(* ptr operations on BQ are not atomic in the source: the copy in          *)
(* fdrLoggingFlush is a load of the slot followed by a reference-count     *)
(* increment, so a concurrent BQ.reset() can free the pool in between.     *)
(* An access to an absent (null) or freed pool is undefined behaviour: it  *)
(* is recorded in Faults and the build either crashes the process or       *)
(* carries on with stale or garbage data.                                  *)
(***************************************************************************)
EXTENDS Integers, Sequences, FiniteSets, TLC

----------------------------------------------------------------------------
(* Bounds of the model *)

NThreads == 2
MaxCalls == 5
MaxBufferSize == 2
MaxBufferMax == 2

Threads == 1..NThreads

----------------------------------------------------------------------------
(* Values *)

XRAY_LOG_UNINITIALIZED == "XRAY_LOG_UNINITIALIZED"
XRAY_LOG_INITIALIZING == "XRAY_LOG_INITIALIZING"
XRAY_LOG_INITIALIZED == "XRAY_LOG_INITIALIZED"
XRAY_LOG_FINALIZING == "XRAY_LOG_FINALIZING"
XRAY_LOG_FINALIZED == "XRAY_LOG_FINALIZED"

XRayLogInitStatus ==
  {XRAY_LOG_UNINITIALIZED, XRAY_LOG_INITIALIZING, XRAY_LOG_INITIALIZED,
   XRAY_LOG_FINALIZING, XRAY_LOG_FINALIZED}

XRAY_LOG_NOT_FLUSHING == "XRAY_LOG_NOT_FLUSHING"
XRAY_LOG_FLUSHING == "XRAY_LOG_FLUSHING"
XRAY_LOG_FLUSHED == "XRAY_LOG_FLUSHED"

XRayLogFlushStatus ==
  {XRAY_LOG_NOT_FLUSHING, XRAY_LOG_FLUSHING, XRAY_LOG_FLUSHED}

\* The empty std::shared_ptr<BufferQueue>, and no handler.
nullptr == 0

\* sizeof(FDRLoggingOptions), and a size an ABI-skewed caller passes.
sizeofFDRLoggingOptions == "sizeof(FDRLoggingOptions)"
OptionsSizes == {sizeofFDRLoggingOptions, "other size"}

\* FDRLoggingOptions::Fd: -1 means "resolve the default log at flush time".
OptionFds == {-1, 3}
\* What getLogFD() can return: -1 on failure, else a fresh descriptor.
LogFDs == {-1, 4}

BufferSizes == {1, MaxBufferSize}
BufferMaxes == {MaxBufferMax}

FuncIds == {1}
EntryTypes == {"ENTRY", "EXIT"}

NoValue == "-"

----------------------------------------------------------------------------
VARIABLES
  LoggingStatus,   \* atomic_sint32_t LoggingStatus
  LogFlushStatus,  \* atomic_sint32_t LogFlushStatus
  BQ,              \* std::shared_ptr<BufferQueue> BQ: nullptr or a pool id
  FDROptions,      \* std::unique_ptr<FDRLoggingOptions>: NoOptions or [Fd]
  Handler,         \* what __xray_set_handler last installed
  Heap,            \* the BufferQueue objects constructed so far, by pool id
  Written,         \* every retryingWriteAll, in order: [Fd, Bytes]
  pc,              \* each thread's position
  Frame,           \* each thread's locals while it is inside a call
  Returned,        \* the call that returned in the step just taken, if any
  Calls,           \* calls started so far (bounded by MaxCalls)
  Installs,        \* __xray_set_handler calls made by fdrLoggingInit
  Faults,          \* accesses made to an absent or freed pool
  Crashed          \* the process died on such an access

vars == <<LoggingStatus, LogFlushStatus, BQ, FDROptions, Handler, Heap,
          Written, pc, Frame, Returned, Calls, Installs, Faults, Crashed>>

\* The process-wide state a call can change, apart from the caller's frame.
shared == <<LoggingStatus, LogFlushStatus, BQ, FDROptions, Handler, Heap,
            Written, Installs, Faults, Crashed>>

\* The empty std::unique_ptr<FDRLoggingOptions>.
NoOptions == [null |-> TRUE]

NoPool ==
  [alloc |-> "none", refs |-> 0, ok |-> FALSE, BufferSize |-> 0,
   Finalized |-> FALSE, Buffers |-> <<>>]

Frame0 ==
  [BufferSize |-> 0, BufferMax |-> 0, OptionsFd |-> 0, OptionsSize |-> NoValue,
   LocalBQ |-> nullptr, Fd |-> 0, i |-> 0, cas |-> 0,
   ev |-> <<>>, out |-> <<>>, seen |-> <<>>]

\* No call returned in the step just taken.
NoReturn ==
  [t |-> 0, op |-> NoValue, path |-> NoValue, ret |-> NoValue,
   OptionsSize |-> NoValue, cas |-> 0, out |-> <<>>, seen |-> <<>>]

Init ==
  /\ LoggingStatus = XRAY_LOG_UNINITIALIZED
  /\ LogFlushStatus = XRAY_LOG_NOT_FLUSHING
  /\ BQ = nullptr
  /\ FDROptions = NoOptions
  /\ Handler = nullptr
  /\ Heap = <<>>
  /\ Written = <<>>
  /\ pc = [t \in Threads |-> "idle"]
  /\ Frame = [t \in Threads |-> Frame0]
  /\ Returned = NoReturn
  /\ Calls = 0
  /\ Installs = 0
  /\ Faults = {}
  /\ Crashed = FALSE

----------------------------------------------------------------------------
(* Helpers *)

\* A thread may start a call when it is not inside one.
CanCall(t) ==
  /\ ~Crashed
  /\ pc[t] = "idle"

\* The model follows at most MaxCalls calls, whatever they do.
Spend == Calls < MaxCalls /\ Calls' = Calls + 1

Running(t, at) == ~Crashed /\ pc[t] = at

\* The call returns `val`; `path` names the branch it took.  The locals go
\* out of scope; what the call did is kept in Returned for this one state.
ReturnFrom(t, op, path, val, frame) ==
  /\ pc' = [pc EXCEPT ![t] = "idle"]
  /\ Frame' = [Frame EXCEPT ![t] = Frame0]
  /\ Returned' = [t |-> t, op |-> op, path |-> path, ret |-> val,
                  OptionsSize |-> frame.OptionsSize, cas |-> frame.cas,
                  out |-> frame.out, seen |-> frame.seen]

Return(t, op, path, val) == ReturnFrom(t, op, path, val, Frame[t])

\* The call goes on at `at` with locals `frame`.
Goto(t, at, frame) ==
  /\ pc' = [pc EXCEPT ![t] = at]
  /\ Frame' = [Frame EXCEPT ![t] = frame]
  /\ Returned' = NoReturn

\* BufferQueue objects constructed so far.
Constructed == Len(Heap)

Live(p) == p # nullptr /\ Heap[p].alloc = "live"

\* Dropping one shared_ptr reference: the last one destroys the pool.
ReleaseRef(heap, p) ==
  IF p = nullptr \/ heap[p].alloc # "live" THEN heap
  ELSE IF heap[p].refs = 1
       THEN [heap EXCEPT ![p].refs = 0, ![p].alloc = "freed"]
       ELSE [heap EXCEPT ![p].refs = heap[p].refs - 1]

\* What an access to pool p through a dangling or null handle is recorded as.
FaultOf(op, p) == [op |-> op, pool |-> IF p = nullptr THEN "absent" ELSE "freed"]

----------------------------------------------------------------------------
(* The Buffer Pool (BufferQueue), as the lifecycle controller uses it *)

\* BufferQueue(BufferSize, BufferMax, Success): BufferMax empty buffers of
\* capacity BufferSize, or no buffers when construction fails.
BufferQueue(BufferSize, BufferMax, Success) ==
  [alloc |-> "live", refs |-> 1, ok |-> Success, BufferSize |-> BufferSize,
   Finalized |-> FALSE,
   Buffers |-> IF Success THEN [i \in 1..BufferMax |-> <<>>] ELSE <<>>]

----------------------------------------------------------------------------
(* fdrLoggingInit *)

\* Line 55: the options block is rejected unless its size is the expected one.
OptionsSizeMismatchBug(OptionsSize) == FALSE
OptionsSizeMismatch(OptionsSize) == OptionsSize # sizeofFDRLoggingOptions

\* Lines 58-62: the compare-and-swap succeeds only from XRAY_LOG_UNINITIALIZED.
InitCasSucceedsBug(status) ==
  status \in {XRAY_LOG_UNINITIALIZED, XRAY_LOG_INITIALIZING}
InitCasAfterResetBug(status) ==
  status \in {XRAY_LOG_UNINITIALIZED, XRAY_LOG_INITIALIZED}
InitCasSucceeds(status) == status = XRAY_LOG_UNINITIALIZED

\* Lines 55-63: the size check, then CAS Uninitialized -> Initializing.
fdrLoggingInit(t, BufferSize, BufferMax, OptionsFd, OptionsSize) ==
  LET frame == [Frame0 EXCEPT !.BufferSize = BufferSize,
                              !.BufferMax = BufferMax,
                              !.OptionsFd = OptionsFd,
                              !.OptionsSize = OptionsSize]
  IN /\ CanCall(t)
     /\ Spend
     /\ IF OptionsSizeMismatch(OptionsSize)
          THEN /\ ReturnFrom(t, "Init", "size_mismatch", LoggingStatus, frame)
               /\ UNCHANGED shared
          ELSE IF InitCasSucceeds(LoggingStatus)
                 THEN /\ LoggingStatus' = XRAY_LOG_INITIALIZING
                      /\ Goto(t, "init_construct", frame)
                      /\ UNCHANGED <<LogFlushStatus, BQ, FDROptions, Handler,
                                     Heap, Written, Installs, Faults, Crashed>>
                 ELSE /\ ReturnFrom(t, "Init", "cas_lost", LoggingStatus, frame)
                      /\ UNCHANGED shared

\* Lines 65-72: the options are copied into a fresh FDROptions and
\* BQ = make_shared<BufferQueue>(...); a failed construction reports and
\* returns XRAY_LOG_UNINITIALIZED with the status register untouched.
fdrLoggingInit_Construct(t) ==
  /\ Running(t, "init_construct")
  /\ FDROptions' = [Fd |-> Frame[t].OptionsFd]
  /\ \E Success \in BOOLEAN :
       LET p == Len(Heap) + 1
           q == BufferQueue(Frame[t].BufferSize, Frame[t].BufferMax, Success)
       IN /\ Heap' = Append(ReleaseRef(Heap, BQ), q)
          /\ BQ' = p
          /\ IF Success
               THEN Goto(t, "init_publish", Frame[t])
               ELSE Return(t, "Init", "pool_failed", XRAY_LOG_UNINITIALIZED)
  /\ UNCHANGED <<LoggingStatus, LogFlushStatus, Handler, Written, Calls,
                 Installs, Faults, Crashed>>

\* Lines 75-81: __xray_set_handler(fdrLoggingHandleArg0), then store
\* XRAY_LOG_INITIALIZED and return it.
fdrLoggingInit_Publish(t) ==
  /\ Running(t, "init_publish")
  /\ Handler' = "fdrLoggingHandleArg0"
  /\ Installs' = Installs + 1
  /\ LoggingStatus' = XRAY_LOG_INITIALIZED
  /\ Return(t, "Init", "won", XRAY_LOG_INITIALIZED)
  /\ UNCHANGED <<LogFlushStatus, BQ, FDROptions, Heap, Written, Calls, Faults,
                 Crashed>>

----------------------------------------------------------------------------
(* Undefined behaviour: a pool reached through a null or dangling handle *)

\* What a read through handle p can return: the pool itself when it is alive;
\* for a freed pool the stale contents or garbage; for no pool, garbage.
Observe(p) ==
  IF Live(p) THEN {Heap[p]}
  ELSE IF p = nullptr THEN {NoPool} ELSE {Heap[p], NoPool}

Noted(op, p) == IF Live(p) THEN Faults ELSE Faults \cup {FaultOf(op, p)}

\* The access kills the process: thread t's call ends there and nothing runs
\* afterwards.
Crash(t, op, p) ==
  /\ ~Live(p)
  /\ Crashed' = TRUE
  /\ Faults' = Faults \cup {FaultOf(op, p)}
  /\ Returned' = [NoReturn EXCEPT !.t = t, !.op = op, !.path = "crashed"]
  /\ UNCHANGED <<LoggingStatus, LogFlushStatus, BQ, FDROptions, Handler, Heap,
                 Written, pc, Frame, Calls, Installs>>

----------------------------------------------------------------------------
(* fdrLoggingFinalize *)

\* Lines 148-152: the compare-and-swap succeeds only from XRAY_LOG_INITIALIZED.
FinalizeCasSucceedsBug(status) ==
  status \in {XRAY_LOG_INITIALIZING, XRAY_LOG_INITIALIZED}
FinalizeCasRacesBug(status) ==
  status \in {XRAY_LOG_INITIALIZED, XRAY_LOG_FINALIZING}
FinalizeCasSucceeds(status) == status = XRAY_LOG_INITIALIZED

\* Lines 148-153: CAS Initialized -> Finalizing, else return what was seen.
fdrLoggingFinalize(t) ==
  /\ CanCall(t)
  /\ Spend
  /\ IF FinalizeCasSucceeds(LoggingStatus)
       THEN /\ LoggingStatus' = XRAY_LOG_FINALIZING
            /\ Goto(t, "finalize_pool", Frame0)
            /\ UNCHANGED <<LogFlushStatus, BQ, FDROptions, Handler, Heap,
                           Written, Installs, Faults, Crashed>>
       ELSE /\ Return(t, "Finalize", "cas_lost", LoggingStatus)
            /\ UNCHANGED shared

\* Line 157: BQ->finalize(), through the process-wide handle.
fdrLoggingFinalize_Pool(t) ==
  /\ Running(t, "finalize_pool")
  /\ \/ Crash(t, "Finalize", BQ)
     \/ /\ Heap' = IF Live(BQ) THEN [Heap EXCEPT ![BQ].Finalized = TRUE]
                   ELSE Heap
        /\ Faults' = Noted("Finalize", BQ)
        /\ Goto(t, "finalize_store", Frame[t])
        /\ UNCHANGED <<LoggingStatus, LogFlushStatus, BQ, FDROptions, Handler,
                       Written, Calls, Installs, Crashed>>

\* Lines 159-162: store XRAY_LOG_FINALIZED and return it.
fdrLoggingFinalize_Store(t) ==
  /\ Running(t, "finalize_store")
  /\ LoggingStatus' = XRAY_LOG_FINALIZED
  /\ Return(t, "Finalize", "won", XRAY_LOG_FINALIZED)
  /\ UNCHANGED <<LogFlushStatus, BQ, FDROptions, Handler, Heap, Written,
                 Calls, Installs, Faults, Crashed>>

----------------------------------------------------------------------------
(* fdrLoggingFlush *)

\* Lines 86-88: flushing is refused unless the log is finalized.
FlushGuardFailsBug(status) ==
  status \notin {XRAY_LOG_FINALIZING, XRAY_LOG_FINALIZED}
FlushGuardFails(status) == status # XRAY_LOG_FINALIZED

\* Lines 91-94: the compare-and-swap succeeds only from XRAY_LOG_NOT_FLUSHING.
FlushCasSucceedsBug(status) == status # XRAY_LOG_FLUSHED
FlushCasSucceeds(status) == status = XRAY_LOG_NOT_FLUSHING

\* Line 136: only a buffer with a positive size is written.
ShouldWrite(B) == Len(B) > 0

\* Lines 121-130: the file header, FdrData holding the configured buffer size.
\* CycleFrequency is whichever of getTSCFrequency() and NanosecondsPerSecond
\* the CPU probe selects: a property of the machine, kept symbolic.
XRayFileHeader(ConfiguredBufferSize) ==
  [Version |-> 1, Type |-> "FDR_LOG", CycleFrequency |-> "CycleFrequency",
   ConstantTSC |-> 1, NonstopTSC |-> 1, FdrData |-> ConfiguredBufferSize]

\* retryingWriteAll(Fd, Begin, End): all the bytes reach the descriptor.
retryingWriteAll(written, Fd, Bytes) ==
  Append(written, [Fd |-> Fd, Bytes |-> Bytes])

\* Lines 86-89: the entry guard on LoggingStatus.
fdrLoggingFlush(t) ==
  /\ CanCall(t)
  /\ Spend
  /\ IF FlushGuardFails(LoggingStatus)
       THEN Return(t, "Flush", "not_finalized", XRAY_LOG_NOT_FLUSHING)
       ELSE Goto(t, "flush_cas", Frame0)
  /\ UNCHANGED shared

\* Lines 91-95: CAS NotFlushing -> Flushing, else return what was seen.
fdrLoggingFlush_Cas(t) ==
  /\ Running(t, "flush_cas")
  /\ IF FlushCasSucceeds(LogFlushStatus)
       THEN /\ LogFlushStatus' = XRAY_LOG_FLUSHING
            /\ Goto(t, "flush_copy", Frame[t])
       ELSE /\ Return(t, "Flush", "cas_lost", LogFlushStatus)
            /\ UNCHANGED LogFlushStatus
  /\ UNCHANGED <<LoggingStatus, BQ, FDROptions, Handler, Heap, Written, Calls,
                 Installs, Faults, Crashed>>

\* Line 100, first half of `auto LocalBQ = BQ`: the slot is read.
fdrLoggingFlush_Copy(t) ==
  /\ Running(t, "flush_copy")
  /\ Goto(t, "flush_ref", [Frame[t] EXCEPT !.LocalBQ = BQ])
  /\ UNCHANGED <<shared, Calls>>

\* Line 100, second half: the reference count of what was read is raised.
\* A pool freed since the read is touched after its destruction.
fdrLoggingFlush_Ref(t) ==
  /\ Running(t, "flush_ref")
  /\ LET p == Frame[t].LocalBQ
     IN \/ p # nullptr /\ Crash(t, "Flush", p)
        \/ /\ Heap' = IF Live(p) THEN [Heap EXCEPT ![p].refs = Heap[p].refs + 1]
                      ELSE Heap
           /\ Faults' = IF p = nullptr THEN Faults ELSE Noted("Flush", p)
           /\ Goto(t, "flush_fd", Frame[t])
           /\ UNCHANGED <<LoggingStatus, LogFlushStatus, BQ, FDROptions,
                          Handler, Written, Calls, Installs,
                          Crashed>>

\* Line 115: `Result`, what a flush without a descriptor stores and returns.
NoFdResultBug == XRAY_LOG_FLUSHING
NoFdResult == XRAY_LOG_NOT_FLUSHING

\* Lines 111-119: the descriptor from the options, else getLogFD(); with
\* neither, XRAY_LOG_NOT_FLUSHING is stored and returned.
fdrLoggingFlush_Fd(t) ==
  /\ Running(t, "flush_fd")
  /\ FDROptions # NoOptions
  /\ \E LogFD \in LogFDs :
       LET Fd == IF FDROptions.Fd = -1 THEN LogFD ELSE FDROptions.Fd
       IN IF Fd = -1
            THEN /\ LogFlushStatus' = NoFdResult
                 /\ Heap' = ReleaseRef(Heap, Frame[t].LocalBQ)
                 /\ Return(t, "Flush", "no_fd", NoFdResult)
            ELSE /\ Goto(t, "flush_header", [Frame[t] EXCEPT !.Fd = Fd])
                 /\ UNCHANGED <<LogFlushStatus, Heap>>
  /\ UNCHANGED <<LoggingStatus, BQ, FDROptions, Handler, Written, Calls,
                 Installs, Faults, Crashed>>

\* Lines 121-132: the header is built from LocalBQ->ConfiguredBufferSize()
\* and written.
fdrLoggingFlush_Header(t) ==
  /\ Running(t, "flush_header")
  /\ LET p == Frame[t].LocalBQ
     IN \/ Crash(t, "Flush", p)
        \/ \E q \in Observe(p) :
             LET Header == XRayFileHeader(q.BufferSize)
             IN /\ Written' = retryingWriteAll(Written, Frame[t].Fd, <<Header>>)
                /\ Faults' = Noted("Flush", p)
                /\ Goto(t, "flush_apply",
                        [Frame[t] EXCEPT !.i = 1, !.out = <<<<Header>>>>])
                /\ UNCHANGED <<LoggingStatus, LogFlushStatus, BQ, FDROptions,
                               Handler, Heap, Calls, Installs,
                               Crashed>>

\* Lines 134-144: LocalBQ->apply(...), one buffer per step: a buffer of
\* positive size is written whole, the others are skipped.  Past the last
\* buffer XRAY_LOG_FLUSHED is stored and returned, and LocalBQ goes out of
\* scope, dropping its reference.
fdrLoggingFlush_Apply(t) ==
  /\ Running(t, "flush_apply")
  /\ LET p == Frame[t].LocalBQ
         i == Frame[t].i
     IN \/ Crash(t, "Flush", p)
        \/ \E q \in Observe(p) :
             /\ Faults' = Noted("Flush", p)
             /\ IF i <= Len(q.Buffers)
                  THEN LET B == q.Buffers[i]
                           f == [Frame[t] EXCEPT !.i = i + 1,
                                                 !.seen = Append(@, B)]
                       IN /\ IF ShouldWrite(B)
                               THEN /\ Written' = retryingWriteAll(
                                                    Written, Frame[t].Fd, B)
                                    /\ Goto(t, "flush_apply",
                                            [f EXCEPT !.out = Append(@, B)])
                               ELSE /\ Written' = Written
                                    /\ Goto(t, "flush_apply", f)
                          /\ UNCHANGED <<LogFlushStatus, Heap>>
                  ELSE /\ Written' = Written
                       /\ LogFlushStatus' = XRAY_LOG_FLUSHED
                       /\ Heap' = ReleaseRef(Heap, p)
                       /\ Return(t, "Flush", "flushed", XRAY_LOG_FLUSHED)
             /\ UNCHANGED <<LoggingStatus, BQ, FDROptions, Handler, Calls,
                            Installs, Crashed>>

----------------------------------------------------------------------------
(* fdrLoggingReset *)

\* Lines 166-170: the compare-and-swap succeeds only from XRAY_LOG_FINALIZED.
ResetCasSucceedsBug(status) == status # XRAY_LOG_FINALIZED
ResetCasSucceeds(status) == status = XRAY_LOG_FINALIZED

\* Lines 166-171: CAS Finalized -> Initialized; when it SUCCEEDS the call
\* returns the expected value it holds (XRAY_LOG_FINALIZED) at once.
fdrLoggingReset(t) ==
  /\ CanCall(t)
  /\ Spend
  /\ IF ResetCasSucceeds(LoggingStatus)
       THEN /\ LoggingStatus' = XRAY_LOG_INITIALIZED
            /\ Return(t, "Reset", "cas_won", XRAY_LOG_FINALIZED)
       ELSE /\ Goto(t, "reset_release", Frame0)
            /\ UNCHANGED LoggingStatus
  /\ UNCHANGED <<LogFlushStatus, BQ, FDROptions, Handler, Heap, Written,
                 Installs, Faults, Crashed>>

\* Line 174: BQ.reset() empties the process-wide slot and drops its reference.
fdrLoggingReset_Release(t) ==
  /\ Running(t, "reset_release")
  /\ Heap' = ReleaseRef(Heap, BQ)
  /\ BQ' = nullptr
  /\ Goto(t, "reset_spin", Frame[t])
  /\ UNCHANGED <<LoggingStatus, LogFlushStatus, FDROptions, Handler, Written,
                 Calls, Installs, Faults, Crashed>>

\* Lines 177-181: the compare-and-swap succeeds only from XRAY_LOG_FLUSHED.
ResetLoopCasSucceedsBug(status) ==
  status \in {XRAY_LOG_FLUSHING, XRAY_LOG_FLUSHED}
ResetLoopCasSucceeds(status) == status = XRAY_LOG_FLUSHED

\* Lines 177-188: while (CAS Flushed -> NotFlushing succeeds) the body finds
\* CurrentFlushingStatus still XRAY_LOG_FLUSHED and goes round again; the
\* first failing CAS ends the loop, and XRAY_LOG_UNINITIALIZED is returned.
\* (sanitizer_common's atomic_compare_exchange_weak is the strong exchange.)
fdrLoggingReset_Spin(t) ==
  /\ Running(t, "reset_spin")
  /\ IF ResetLoopCasSucceeds(LogFlushStatus)
       THEN /\ LogFlushStatus' = XRAY_LOG_NOT_FLUSHING
            /\ Goto(t, "reset_spin", [Frame[t] EXCEPT !.cas = @ + 1])
       ELSE /\ UNCHANGED LogFlushStatus
            /\ ReturnFrom(t, "Reset", "released", XRAY_LOG_UNINITIALIZED,
                          [Frame[t] EXCEPT !.cas = @ + 1])
  /\ UNCHANGED <<LoggingStatus, BQ, FDROptions, Handler, Heap, Written, Calls,
                 Installs, Faults, Crashed>>

----------------------------------------------------------------------------
(* fdrLoggingHandleArg0 and the Record Encoder it hands the event to *)

NanosecondsPerSecond == 1000000000

\* Lines 199-211: the hardware counter with the CPU it was read on, or the
\* wall clock in nanoseconds with CPU 0 (time {0, 0} when the clock fails).
Timestamps(probe) ==
  IF probe THEN {[TSC |-> 7, CPU |-> 1]}
  ELSE {[TSC |-> tv[1] * NanosecondsPerSecond + tv[2], CPU |-> 0] :
          tv \in {<<0, 0>>, <<1, 5>>}}

\* The record the encoder makes of an event: its function id and entry type
\* (the timestamp's encoding is the encoder's business and is left out).
Record(event) == <<event.FuncId, event.Entry>>

\* The encoder reads the status it was handed a reference to, and discards
\* the event unless the log is initialized.
EncoderDiscards(status) == status # XRAY_LOG_INITIALIZED

\* Lines 191-214: time the event, then call processFunctionHook with
\* LoggingStatus and BQ passed by reference; no status check is made here,
\* the first thing to read LoggingStatus is the encoder.
fdrLoggingHandleArg0(t, FuncId, Entry) ==
  /\ CanCall(t)
  /\ Spend
  /\ \E probe \in BOOLEAN : \E ts \in Timestamps(probe) :
       IF EncoderDiscards(LoggingStatus)
         THEN Return(t, "Hook", "discarded", LoggingStatus)
         ELSE LET event == [FuncId |-> FuncId, Entry |-> Entry,
                            TSC |-> ts.TSC, CPU |-> ts.CPU]
              IN Goto(t, "encoder_write",
                      [Frame0 EXCEPT !.ev = Record(event)])
  /\ UNCHANGED shared

\* Where the pool puts a record: the first buffer with room, unless that
\* buffer is still unissued and the pool is finalized.
RecordInto(q, ev) ==
  LET room == {i \in 1..Len(q.Buffers) : Len(q.Buffers[i]) < q.BufferSize}
  IN IF room = {} THEN q
     ELSE LET k == CHOOSE i \in room : \A j \in room : i <= j
          IN IF q.Finalized /\ Len(q.Buffers[k]) = 0 THEN q
             ELSE [q EXCEPT !.Buffers[k] = Append(@, ev)]

\* The encoder writes the record into the pool behind the process-wide
\* handle, as the handle is when it gets there.
processFunctionHook_Write(t) ==
  /\ Running(t, "encoder_write")
  /\ \/ Crash(t, "Hook", BQ)
     \/ /\ Heap' = IF Live(BQ)
                     THEN [Heap EXCEPT ![BQ] = RecordInto(@, Frame[t].ev)]
                     ELSE Heap
        /\ Faults' = Noted("Hook", BQ)
        /\ Return(t, "Hook", IF Live(BQ) THEN "recorded" ELSE "faulted",
                  XRAY_LOG_INITIALIZED)
        /\ UNCHANGED <<LoggingStatus, LogFlushStatus, BQ, FDROptions, Handler,
                       Written, Calls, Installs, Crashed>>

----------------------------------------------------------------------------
(* The system: any thread may make any call at any time *)

Next ==
  \E t \in Threads :
    \/ \E BufferSize \in BufferSizes, BufferMax \in BufferMaxes,
          OptionsFd \in OptionFds, OptionsSize \in OptionsSizes :
         fdrLoggingInit(t, BufferSize, BufferMax, OptionsFd, OptionsSize)
    \/ fdrLoggingInit_Construct(t)
    \/ fdrLoggingInit_Publish(t)
    \/ fdrLoggingFinalize(t)
    \/ fdrLoggingFinalize_Pool(t)
    \/ fdrLoggingFinalize_Store(t)
    \/ fdrLoggingFlush(t)
    \/ fdrLoggingFlush_Cas(t)
    \/ fdrLoggingFlush_Copy(t)
    \/ fdrLoggingFlush_Ref(t)
    \/ fdrLoggingFlush_Fd(t)
    \/ fdrLoggingFlush_Header(t)
    \/ fdrLoggingFlush_Apply(t)
    \/ fdrLoggingReset(t)
    \/ fdrLoggingReset_Release(t)
    \/ fdrLoggingReset_Spin(t)
    \/ \E FuncId \in FuncIds, Entry \in EntryTypes :
         fdrLoggingHandleArg0(t, FuncId, Entry)
    \/ processFunctionHook_Write(t)

Spec == Init /\ [][Next]_vars

----------------------------------------------------------------------------
(* Properties *)

InInit(t) == pc[t] \in {"init_construct", "init_publish"}
InFlush(t) ==
  pc[t] \in {"flush_copy", "flush_ref", "flush_fd", "flush_header",
             "flush_apply"}

\* Thread t starts fdrLoggingInit in this step, passing OptionsSize size.
InitCalled(t, size) ==
  /\ pc[t] = "idle"
  /\ \/ Returned'.t = t /\ Returned'.op = "Init"
        /\ Returned'.OptionsSize = size
     \/ pc'[t] = "init_construct" /\ Frame'[t].OptionsSize = size

\* Thread t starts fdrLoggingFlush in this step.
FlushCalled(t) ==
  /\ pc[t] = "idle"
  /\ \/ Returned'.t = t /\ Returned'.op = "Flush"
     \/ pc'[t] = "flush_cas"

\* C1, in every state: at most one thread ever wins the CAS out of
\* XRAY_LOG_UNINITIALIZED, so at most one is constructing, one pool is ever
\* constructed and the handler installed once; the winner whose pool was
\* constructed returns XRAY_LOG_INITIALIZED with the status, the options and
\* the pool in place; a loser returns the status it saw, never Uninitialized.
C1_State ==
  /\ Cardinality({t \in Threads : pc[t] = "init_construct"}) + Constructed <= 1
  /\ Cardinality({t \in Threads : InInit(t)}) <= 1
  /\ Installs <= Constructed
  /\ \A t \in Threads : pc[t] = "init_publish" =>
       /\ LoggingStatus = XRAY_LOG_INITIALIZING
       /\ Constructed = 1 /\ Installs = 0 /\ Heap[1].ok
       /\ FDROptions = [Fd |-> Frame[t].OptionsFd]
  /\ (Returned.op = "Init" /\ Returned.path = "won") =>
       /\ Returned.ret = XRAY_LOG_INITIALIZED
       /\ LoggingStatus = XRAY_LOG_INITIALIZED
       /\ FDROptions # NoOptions
       /\ Constructed = 1 /\ Installs = 1

\* C1, in every step: an fdrLoggingInit call with the matching size that does
\* not find XRAY_LOG_UNINITIALIZED returns at once the status it found and
\* leaves the process-wide state as it was; one that finds it moves the
\* status to XRAY_LOG_INITIALIZING and goes on to construct.
C1_Step ==
  \A t \in Threads :
    InitCalled(t, sizeofFDRLoggingOptions) =>
      IF LoggingStatus = XRAY_LOG_UNINITIALIZED
        THEN pc'[t] = "init_construct"
             /\ LoggingStatus' = XRAY_LOG_INITIALIZING
        ELSE /\ Returned'.t = t
             /\ Returned'.ret = LoggingStatus
             /\ Returned'.ret # XRAY_LOG_UNINITIALIZED
             /\ UNCHANGED shared

\* C1: of any concurrent fdrLoggingInit calls with the matching options size
\* exactly one wins the CAS, constructs the options and the pool and (the
\* pool constructed) stores XRAY_LOG_INITIALIZED; every other call returns
\* the status it observed and constructs, installs and stores nothing.
C1_InitializeOnce == []C1_State /\ [][C1_Step]_vars

\* C1 witness: a call lost the CAS to a call that is still constructing.
C1_Witness ==
  /\ Returned.op = "Init" /\ Returned.path = "cas_lost"
  /\ Returned.OptionsSize = sizeofFDRLoggingOptions
  /\ Returned.ret = XRAY_LOG_INITIALIZING
  /\ \E u \in Threads : pc[u] = "init_publish"

\* C2: fdrLoggingInit called with an options size other than
\* sizeof(FDRLoggingOptions) returns the current LoggingStatus at once and
\* changes nothing: not the status, the options, BQ, the handler, the pools,
\* LogFlushStatus or the written log, whatever the status is.
C2_SizeMismatchIsNoOp ==
  [][\A t \in Threads : \A size \in OptionsSizes \ {sizeofFDRLoggingOptions} :
       InitCalled(t, size) =>
         /\ Returned'.t = t
         /\ Returned'.ret = LoggingStatus
         /\ UNCHANGED shared]_vars

\* C2 witness: a mismatched call returned while another thread is in the
\* middle of finalizing.
C2_Witness ==
  /\ Returned.op = "Init"
  /\ Returned.OptionsSize # sizeofFDRLoggingOptions
  /\ Returned.ret = XRAY_LOG_FINALIZING
  /\ LoggingStatus = XRAY_LOG_FINALIZING

\* C3: fdrLoggingFlush called while LoggingStatus is not XRAY_LOG_FINALIZED
\* returns XRAY_LOG_NOT_FLUSHING at once, writes nothing and leaves
\* LogFlushStatus (and the rest of the process-wide state) as it was.
C3_FlushNeedsFinalized ==
  [][\A t \in Threads :
       (FlushCalled(t) /\ LoggingStatus # XRAY_LOG_FINALIZED) =>
         /\ Returned'.t = t
         /\ Returned'.ret = XRAY_LOG_NOT_FLUSHING
         /\ Written' = Written
         /\ LogFlushStatus' = LogFlushStatus
         /\ UNCHANGED shared]_vars

\* C3 witness: such a call returned while LogFlushStatus was XRAY_LOG_FLUSHED.
C3_Witness ==
  /\ Returned.op = "Flush" /\ Returned.ret = XRAY_LOG_NOT_FLUSHING
  /\ LoggingStatus # XRAY_LOG_FINALIZED
  /\ LogFlushStatus = XRAY_LOG_FLUSHED

\* C4, in every state: at most one thread is between the CAS to
\* XRAY_LOG_FLUSHING and the store that ends the flush, and while one is
\* there LogFlushStatus is XRAY_LOG_FLUSHING.
C4_State ==
  /\ Cardinality({t \in Threads : InFlush(t)}) <= 1
  /\ \A t \in Threads : InFlush(t) => LogFlushStatus = XRAY_LOG_FLUSHING

\* C4, in every step: a flush whose CAS does not find XRAY_LOG_NOT_FLUSHING
\* returns the status it found (Flushing or Flushed), having written nothing,
\* and changes nothing; one that finds it enters the write section.
C4_Step ==
  \A t \in Threads :
    (pc[t] = "flush_cas" /\ pc'[t] # "flush_cas") =>
      IF LogFlushStatus = XRAY_LOG_NOT_FLUSHING
        THEN pc'[t] = "flush_copy" /\ LogFlushStatus' = XRAY_LOG_FLUSHING
        ELSE /\ Returned'.t = t /\ Returned'.op = "Flush"
             /\ Returned'.ret = LogFlushStatus
             /\ Returned'.ret \in {XRAY_LOG_FLUSHING, XRAY_LOG_FLUSHED}
             /\ Returned'.out = <<>>
             /\ UNCHANGED shared

\* C4: of two concurrent fdrLoggingFlush calls only one is in the write
\* section at a time; the one that loses the CAS returns the Flushing or
\* Flushed status it observed without writing anything.
C4_OneFlushWrites == []C4_State /\ [][C4_Step]_vars

\* C4 witness: a flush lost the CAS to one that has written its header.
C4_Witness ==
  /\ Returned.op = "Flush" /\ Returned.path = "cas_lost"
  /\ Returned.ret = XRAY_LOG_FLUSHING
  /\ \E u \in Threads : pc[u] = "flush_apply" /\ Len(Frame[u].out) >= 1

\* Thread t starts fdrLoggingReset in this step.
ResetCalled(t) ==
  /\ pc[t] = "idle"
  /\ \/ Returned'.t = t /\ Returned'.op = "Reset"
     \/ pc'[t] = "reset_release"

\* No thread is inside fdrLoggingFlush past its entry guard.
NoFlushInFlight == \A u \in Threads : pc[u] # "flush_cas" /\ ~InFlush(u)

\* C5: fdrLoggingReset called while LoggingStatus is XRAY_LOG_FINALIZED and no
\* flush is in flight releases the process-wide pool handle, leaves
\* LoggingStatus at XRAY_LOG_UNINITIALIZED and returns XRAY_LOG_UNINITIALIZED
\* (at once, or after going through the release path).
C5_ResetFromFinalized ==
  [][\A t \in Threads :
       (ResetCalled(t) /\ LoggingStatus = XRAY_LOG_FINALIZED
          /\ NoFlushInFlight) =>
         \/ pc'[t] = "reset_release"
         \/ /\ Returned'.ret = XRAY_LOG_UNINITIALIZED
            /\ LoggingStatus' = XRAY_LOG_UNINITIALIZED
            /\ BQ' = nullptr]_vars

\* C6: in every reachable state, LoggingStatus = XRAY_LOG_INITIALIZED implies
\* that the process-wide pool handle is non-empty and designates a pool that
\* has not been released, and that the options snapshot is set.
C6_InitializedHasPoolAndOptions ==
  LoggingStatus = XRAY_LOG_INITIALIZED =>
    /\ BQ # nullptr
    /\ Live(BQ)
    /\ FDROptions # NoOptions

\* C7: a flush that has passed its entry guards and taken its local copy
\* reads the configured buffer size from, and enumerates the buffers of, a
\* pool that is present and alive, whatever fdrLoggingReset does meanwhile.
C7_FlushHoldsLivePool ==
  \A t \in Threads :
    pc[t] \in {"flush_header", "flush_apply"} => Live(Frame[t].LocalBQ)

\* C8: when an fdrLoggingReset call that took the release path returns
\* (XRAY_LOG_UNINITIALIZED), LogFlushStatus is XRAY_LOG_NOT_FLUSHING and no
\* thread is inside the write section of fdrLoggingFlush.
C8_ResetReturnsAfterFlush ==
  (Returned.op = "Reset" /\ Returned.ret = XRAY_LOG_UNINITIALIZED) =>
    /\ LogFlushStatus = XRAY_LOG_NOT_FLUSHING
    /\ \A u \in Threads : ~InFlush(u)

\* C9: an event the hook has handed to the encoder is never written through
\* an absent or freed pool while LoggingStatus is anything other than
\* XRAY_LOG_INITIALIZED: the write that ends a hook call finds the pool behind
\* the process-wide handle alive unless the status is XRAY_LOG_INITIALIZED.
C9_HookNeverWritesDeadPool ==
  [][\A t \in Threads :
       (pc[t] = "encoder_write" /\ Returned'.t = t
          /\ LoggingStatus # XRAY_LOG_INITIALIZED) => Live(BQ)]_vars

\* The buffers of an enumeration that have a positive size, in order.
Used(seen) == SelectSeq(seen, LAMBDA B : Len(B) > 0)

\* C10: when an fdrLoggingFlush call that won the CAS on LogFlushStatus
\* returns XRAY_LOG_FLUSHED, what it wrote is one header declaring the buffer
\* size fdrLoggingInit was given, followed by the contents of every buffer of
\* the pool that has a positive size, in enumeration order and nothing else;
\* the empty buffers add no write.
C10_FlushedFile ==
  (Returned.op = "Flush" /\ Returned.path = "flushed") =>
    /\ Returned.ret = XRAY_LOG_FLUSHED
    /\ Len(Returned.seen) = Len(Heap[1].Buffers)
    /\ Returned.out =
         <<<<XRayFileHeader(Heap[1].BufferSize)>>>> \o Used(Returned.seen)
    /\ \A k \in 1..Len(Returned.out) : Len(Returned.out[k]) > 0

\* Thread t starts fdrLoggingFinalize in this step.
FinalizeCalled(t) ==
  /\ pc[t] = "idle"
  /\ \/ Returned'.t = t /\ Returned'.op = "Finalize"
     \/ pc'[t] = "finalize_pool"

\* The pool fdrLoggingInit constructed reported failure.
PoolFailed == Constructed >= 1 /\ ~Heap[1].ok

\* C11, in every state: once pool construction has failed, LoggingStatus is
\* XRAY_LOG_INITIALIZING and no handler is installed; the call that failed
\* returned XRAY_LOG_UNINITIALIZED, and only such a call returns it with the
\* matching size.
C11_State ==
  /\ PoolFailed =>
       /\ LoggingStatus = XRAY_LOG_INITIALIZING
       /\ Installs = 0 /\ Handler = nullptr
       /\ \A t \in Threads : ~InInit(t)
  /\ (Returned.op = "Init" /\ Returned.OptionsSize = sizeofFDRLoggingOptions
        /\ Returned.ret = XRAY_LOG_UNINITIALIZED) => PoolFailed

\* C11, in every step taken after the failure: fdrLoggingInit with the
\* matching size and fdrLoggingFinalize return XRAY_LOG_INITIALIZING at once,
\* fdrLoggingFlush returns XRAY_LOG_NOT_FLUSHING at once, and none of them
\* changes the process-wide state.
C11_Step ==
  PoolFailed =>
    \A t \in Threads :
      /\ (InitCalled(t, sizeofFDRLoggingOptions) \/ FinalizeCalled(t)) =>
           /\ Returned'.t = t
           /\ Returned'.ret = XRAY_LOG_INITIALIZING
           /\ UNCHANGED shared
      /\ FlushCalled(t) =>
           /\ Returned'.t = t
           /\ Returned'.ret = XRAY_LOG_NOT_FLUSHING
           /\ UNCHANGED shared

\* C11: a failed pool construction makes fdrLoggingInit return
\* XRAY_LOG_UNINITIALIZED with no handler installed and LoggingStatus left at
\* XRAY_LOG_INITIALIZING for good: later fdrLoggingInit and fdrLoggingFinalize
\* calls return XRAY_LOG_INITIALIZING and fdrLoggingFlush returns
\* XRAY_LOG_NOT_FLUSHING, all without effect.
C11_PoolFailureBlocks == []C11_State /\ [][C11_Step]_vars

\* C11 witness: after a failed construction, a second fdrLoggingInit with the
\* matching size has just been turned away with XRAY_LOG_INITIALIZING.
C11_Witness ==
  /\ PoolFailed
  /\ Returned.op = "Init" /\ Returned.OptionsSize = sizeofFDRLoggingOptions
  /\ Returned.ret = XRAY_LOG_INITIALIZING
  /\ \A t \in Threads : pc[t] = "idle"

\* C12: a flush that has won the CAS and reaches the descriptor lookup either
\* goes on to the header with a descriptor (the one of the options when they
\* name one), or, the options naming none and getLogFD() giving none, returns
\* XRAY_LOG_NOT_FLUSHING having written nothing and stored
\* XRAY_LOG_NOT_FLUSHING in LogFlushStatus, LoggingStatus, BQ and the options
\* being left as they were: the next flush finds the CAS open again.
C12_NoDescriptorIsRecoverable ==
  [][\A t \in Threads :
       (pc[t] = "flush_fd" /\ pc'[t] # "flush_fd") =>
         \/ /\ pc'[t] = "flush_header"
            /\ Frame'[t].Fd # -1
            /\ FDROptions.Fd # -1 => Frame'[t].Fd = FDROptions.Fd
            /\ LogFlushStatus' = XRAY_LOG_FLUSHING
         \/ /\ FDROptions.Fd = -1
            /\ Returned'.t = t /\ Returned'.op = "Flush"
            /\ Returned'.ret = XRAY_LOG_NOT_FLUSHING
            /\ Returned'.out = <<>>
            /\ Written' = Written
            /\ LogFlushStatus' = XRAY_LOG_NOT_FLUSHING
            /\ FlushCasSucceeds(LogFlushStatus')
            /\ UNCHANGED <<LoggingStatus, BQ, FDROptions, Handler, Faults>>]_vars

\* C12 witness: with the log still finalized, a flush has just returned
\* XRAY_LOG_NOT_FLUSHING for want of a descriptor (the entry guard refuses
\* only when the log is not finalized), leaving LogFlushStatus open.
C12_Witness ==
  /\ Returned.op = "Flush" /\ Returned.ret = XRAY_LOG_NOT_FLUSHING
  /\ LoggingStatus = XRAY_LOG_FINALIZED
  /\ LogFlushStatus = XRAY_LOG_NOT_FLUSHING
  /\ Written = <<>>
  /\ Live(BQ) /\ Heap[BQ].refs = 1

\* C13: in every reachable state, LoggingStatus = XRAY_LOG_FINALIZED implies
\* that finalize() has completed on the pool fdrLoggingInit constructed, so
\* that this pool issues no new buffers.
C13_FinalizedPoolIsFinalized ==
  LoggingStatus = XRAY_LOG_FINALIZED =>
    /\ Constructed >= 1
    /\ Heap[1].Finalized

InFinalize(t) == pc[t] \in {"finalize_pool", "finalize_store"}

\* C14, in every state: at most one thread is between fdrLoggingInit's CAS and
\* its store (LoggingStatus is then XRAY_LOG_INITIALIZING), and at most one
\* between fdrLoggingFinalize's CAS and its store (XRAY_LOG_FINALIZING).
C14_State ==
  /\ Cardinality({t \in Threads : InInit(t)}) <= 1
  /\ Cardinality({t \in Threads : InFinalize(t)}) <= 1
  /\ \A t \in Threads :
       /\ InInit(t) => LoggingStatus = XRAY_LOG_INITIALIZING
       /\ InFinalize(t) => LoggingStatus = XRAY_LOG_FINALIZING

\* C14, in every step: a call whose CAS on LoggingStatus does not find the
\* value it expects does not enter the section and leaves LoggingStatus as
\* it was; one that finds it enters the section.
C14_Step ==
  \A t \in Threads :
    /\ InitCalled(t, sizeofFDRLoggingOptions) =>
         IF LoggingStatus = XRAY_LOG_UNINITIALIZED
           THEN InInit(t)' /\ LoggingStatus' = XRAY_LOG_INITIALIZING
           ELSE ~InInit(t)' /\ LoggingStatus' = LoggingStatus
    /\ FinalizeCalled(t) =>
         IF LoggingStatus = XRAY_LOG_INITIALIZED
           THEN InFinalize(t)' /\ LoggingStatus' = XRAY_LOG_FINALIZING
           ELSE ~InFinalize(t)' /\ LoggingStatus' = LoggingStatus
    /\ (ResetCalled(t) /\ LoggingStatus # XRAY_LOG_FINALIZED) =>
         LoggingStatus' = LoggingStatus

\* C14: the compare-and-swap admits one thread at a time to the construction
\* section of fdrLoggingInit and one to the section of fdrLoggingFinalize;
\* every attempt that loses leaves LoggingStatus unchanged.
C14_OneWinnerPerTransition == []C14_State /\ [][C14_Step]_vars

\* C14 witness: an fdrLoggingFinalize call has just lost the CAS to a thread
\* that is inside the finalize section.
C14_Witness ==
  /\ Returned.op = "Finalize" /\ Returned.ret = XRAY_LOG_FINALIZING
  /\ LoggingStatus = XRAY_LOG_FINALIZING
  /\ \E u \in Threads : u # Returned.t /\ InFinalize(u)

\* The no-op half of C15: fdrLoggingFinalize called while LoggingStatus is
\* not XRAY_LOG_INITIALIZED returns the status it found at once and changes
\* nothing; called while it is, it moves the status to XRAY_LOG_FINALIZING.
FinalizeCas_Step ==
  \A t \in Threads :
    FinalizeCalled(t) =>
      IF LoggingStatus = XRAY_LOG_INITIALIZED
        THEN /\ pc'[t] = "finalize_pool"
             /\ LoggingStatus' = XRAY_LOG_FINALIZING
             /\ UNCHANGED <<LogFlushStatus, BQ, Heap>>
        ELSE /\ Returned'.t = t
             /\ Returned'.ret = LoggingStatus
             /\ UNCHANGED shared

\* The other half: the call that won the CAS finalizes the pool behind BQ,
\* then stores and returns XRAY_LOG_FINALIZED.
FinalizeSection_Step ==
  \A t \in Threads :
    /\ (pc[t] = "finalize_pool"
          /\ (pc'[t] = "finalize_store" \/ Returned'.t = t)) =>
         /\ Live(BQ)
         /\ pc'[t] = "finalize_store"
         /\ Heap'[BQ].Finalized
         /\ LoggingStatus' = XRAY_LOG_FINALIZING
    /\ (pc[t] = "finalize_store" /\ pc'[t] # "finalize_store") =>
         /\ Returned'.t = t
         /\ Returned'.ret = XRAY_LOG_FINALIZED
         /\ LoggingStatus' = XRAY_LOG_FINALIZED

\* C15: fdrLoggingFinalize called while LoggingStatus is anything other than
\* XRAY_LOG_INITIALIZED is a no-op returning the status observed (finalize()
\* not called; LoggingStatus, LogFlushStatus and BQ unchanged); called while
\* XRAY_LOG_INITIALIZED it moves the status to XRAY_LOG_FINALIZING, finalizes
\* the pool, then stores and returns XRAY_LOG_FINALIZED.
C15_Finalize == [][FinalizeCas_Step /\ FinalizeSection_Step]_vars

\* C16: an fdrLoggingReset call that finds LoggingStatus = XRAY_LOG_FINALIZED
\* (its CAS succeeds) returns in that same step, having made no CAS on
\* LogFlushStatus: BQ, the pools and LogFlushStatus are after the call what
\* they were before it.
C16_ResetCasWinReturnsAtOnce ==
  [][\A t \in Threads :
       (ResetCalled(t) /\ LoggingStatus = XRAY_LOG_FINALIZED) =>
         /\ Returned'.t = t /\ Returned'.op = "Reset"
         /\ Returned'.cas = 0
         /\ pc'[t] = "idle"
         /\ UNCHANGED <<BQ, Heap, LogFlushStatus, FDROptions, Written>>]_vars

\* C16 witness: Reset has just returned from a finalized and flushed log with
\* the pool still behind BQ and LogFlushStatus still XRAY_LOG_FLUSHED.
C16_Witness ==
  /\ Returned.op = "Reset" /\ Returned.ret = XRAY_LOG_FINALIZED
  /\ Live(BQ) /\ Heap[BQ].refs = 1
  /\ LogFlushStatus = XRAY_LOG_FLUSHED
  /\ Len(Written) >= 1

\* The last n writes made, as the sequence of what was written.
LastWritten(n) ==
  [k \in 1..n |-> Written[Len(Written) - n + k].Bytes]

IsHeader(Bytes) == \E size \in 0..MaxBufferSize : Bytes = <<XRayFileHeader(size)>>

\* C17, in every state: a flush that has won the CAS has written nothing
\* before its local copy is taken and the descriptor found; from then on what
\* it has written is the header first and buffers after it, and these are
\* the latest writes made; LogFlushStatus is XRAY_LOG_FLUSHING for as long as
\* a flush is in its write section, so XRAY_LOG_FLUSHED means that the flush
\* which stored it has finished writing.
C17_State ==
  /\ \A t \in Threads :
       /\ pc[t] \in {"flush_cas", "flush_copy", "flush_ref", "flush_fd",
                     "flush_header"} => Frame[t].out = <<>>
       /\ pc[t] = "flush_apply" =>
            /\ Len(Frame[t].out) >= 1
            /\ IsHeader(Frame[t].out[1])
            /\ \A k \in 2..Len(Frame[t].out) : ~IsHeader(Frame[t].out[k])
            /\ Len(Written) >= Len(Frame[t].out)
            /\ LastWritten(Len(Frame[t].out)) = Frame[t].out
       /\ InFlush(t) => LogFlushStatus = XRAY_LOG_FLUSHING
  /\ LogFlushStatus = XRAY_LOG_FLUSHED => \A t \in Threads : ~InFlush(t)

\* C17, in every step: only a flush in its write section writes; the step
\* that stores XRAY_LOG_FLUSHED is the return of a flush that has its header
\* and every buffer of the enumeration behind it and writes nothing more.
C17_Step ==
  /\ Written' # Written =>
       \E t \in Threads :
         /\ pc[t] \in {"flush_header", "flush_apply"}
         /\ pc'[t] = "flush_apply"
         /\ Frame[t].LocalBQ = Frame'[t].LocalBQ
  /\ (LogFlushStatus' = XRAY_LOG_FLUSHED /\ LogFlushStatus # XRAY_LOG_FLUSHED) =>
       \E t \in Threads :
         /\ pc[t] = "flush_apply" /\ Returned'.t = t
         /\ Returned'.ret = XRAY_LOG_FLUSHED
         /\ Written' = Written
         /\ Returned'.out = Frame[t].out
         /\ Live(Frame[t].LocalBQ) =>
              Len(Returned'.seen) = Len(Heap[Frame[t].LocalBQ].Buffers)

\* C17: in a flush that wins the CAS the pool handle is copied before any
\* write, the header is written before every buffer, and XRAY_LOG_FLUSHED is
\* stored only after the last buffer has been written; LogFlushStatus is
\* XRAY_LOG_FLUSHING throughout the write section.
C17_FlushOrder == []C17_State /\ [][C17_Step]_vars

\* C17 witness: a flush has just stored XRAY_LOG_FLUSHED after writing the
\* header and a used buffer, in that order.
C17_Witness ==
  /\ Returned.op = "Flush" /\ Returned.ret = XRAY_LOG_FLUSHED
  /\ LogFlushStatus = XRAY_LOG_FLUSHED
  /\ Len(Returned.out) = 2
  /\ Len(Written) = 2
  /\ IsHeader(Written[1].Bytes) /\ ~IsHeader(Written[2].Bytes)
  /\ Written[2].Bytes = Returned.out[2]

\* C18, in every state: a reset on its release path can always take its next
\* step, whatever the other threads are doing, and it makes at most two
\* compare-and-swap attempts on LogFlushStatus before it returns.
C18_State ==
  /\ \A t \in Threads :
       /\ (pc[t] = "reset_release" /\ ~Crashed) =>
            ENABLED fdrLoggingReset_Release(t)
       /\ (pc[t] = "reset_spin" /\ ~Crashed) =>
            /\ ENABLED fdrLoggingReset_Spin(t)
            /\ Frame[t].cas <= 1
  /\ Returned.op = "Reset" => Returned.cas <= 2

\* C18, in every step of the loop: LogFlushStatus becomes
\* XRAY_LOG_NOT_FLUSHING if it was XRAY_LOG_FLUSHED and is left as it was
\* otherwise, in which case the call returns XRAY_LOG_UNINITIALIZED.
C18_Step ==
  \A t \in Threads :
    (pc[t] = "reset_spin" /\ Frame'[t] # Frame[t]) =>
      IF LogFlushStatus = XRAY_LOG_FLUSHED
        THEN LogFlushStatus' = XRAY_LOG_NOT_FLUSHING
        ELSE /\ LogFlushStatus' = LogFlushStatus
             /\ Returned'.t = t
             /\ Returned'.ret = XRAY_LOG_UNINITIALIZED

Headers == Cardinality({k \in 1..Len(Written) : IsHeader(Written[k].Bytes)})

\* C18 as amended, in every state: a reset on its release path can always
\* take its next step, and the attempts its loop has made number at most one
\* more than the flushes that have written: each attempt but the last found
\* an XRAY_LOG_FLUSHED that a flush had stored.
C18_AmendedState ==
  /\ \A t \in Threads :
       /\ (pc[t] = "reset_release" /\ ~Crashed) =>
            ENABLED fdrLoggingReset_Release(t)
       /\ (pc[t] = "reset_spin" /\ ~Crashed) =>
            /\ ENABLED fdrLoggingReset_Spin(t)
            /\ Frame[t].cas <= Headers
  /\ Returned.op = "Reset" => Returned.cas <= Headers + 1
  /\ (Returned.op = "Reset" /\ Returned.ret = XRAY_LOG_UNINITIALIZED) =>
       Returned.cas >= 1

C19_State ==
  /\ Constructed <= 1
  /\ Installs <= 1
  /\ LoggingStatus = XRAY_LOG_UNINITIALIZED =>
       /\ Constructed = 0 /\ Installs = 0
       /\ \A t \in Threads : ~InInit(t)

\* C19, in every step: a LoggingStatus other than XRAY_LOG_UNINITIALIZED is
\* never followed by XRAY_LOG_UNINITIALIZED, and an fdrLoggingInit call made
\* then constructs nothing and leaves BQ as it is.
C19_Step ==
  LoggingStatus # XRAY_LOG_UNINITIALIZED =>
    /\ LoggingStatus' # XRAY_LOG_UNINITIALIZED
    /\ \A t \in Threads : \A size \in OptionsSizes :
         InitCalled(t, size) =>
           /\ ~InInit(t)'
           /\ UNCHANGED <<BQ, Heap, Handler, Installs, FDROptions>>

\* C19: once LoggingStatus has left XRAY_LOG_UNINITIALIZED no call returns it
\* there, so a pool is constructed and the handler installed at most once,
\* and an fdrLoggingInit after an fdrLoggingReset constructs no new pool.
C19_NeverUninitializedAgain == []C19_State /\ [][C19_Step]_vars

\* C19 witness: after a reset that released the pool and reported
\* XRAY_LOG_UNINITIALIZED, an fdrLoggingInit with the matching size has just
\* been turned away, the handle staying empty.
C19_Witness ==
  /\ Returned.op = "Init" /\ Returned.OptionsSize = sizeofFDRLoggingOptions
  /\ Returned.ret = LoggingStatus
  /\ LoggingStatus \in {XRAY_LOG_INITIALIZED, XRAY_LOG_FINALIZED}
  /\ BQ = nullptr
  /\ Constructed = 1 /\ Heap[1].alloc = "freed"
  /\ \A t \in Threads : pc[t] = "idle"

\* C20: when an fdrLoggingReset call returns with no other call in progress,
\* LoggingStatus is the status the call reports.
C20_ResetReportsRegister ==
  (Returned.op = "Reset" /\ \A t \in Threads : pc[t] = "idle") =>
    LoggingStatus = Returned.ret

====
